---- MODULE Spec2Model ----
(***************************************************************************)
(* Model of the capsule command-line client: the create command            *)
(* (main.rs execute_command), the workflow orchestrator                    *)
(* (cmd_create_application.rs handle) and the HTTP transport client        *)
(* (api/http.rs HttpCapsuleApi::create_application).                       *)
(*                                                                         *)
(* The program is sequential; pc is the position of the single thread of   *)
(* control inside execute_command / handle / create_application.  The      *)
(* server, the network and the file system are the environment: their      *)
(* behaviour for one invocation is drawn from small sets.                  *)
(***************************************************************************)
EXTENDS Integers, Sequences, FiniteSets

(* ------------------------------ bounds --------------------------------- *)

\* number of invocations of the command against the same directory
MaxRuns == 2
\* longest server answer delay, in seconds
MaxDelay == 6

(* --------------------------- program values ---------------------------- *)

\* StatusCode::CREATED
CREATED == 201

\* the timeout the unit test configures (Duration::from_secs(1))
TestTimeoutSecs == 1

\* the timeout main configures (Duration::from_secs(5))
MainTimeoutSecs == 5

\* message of isahc's timeout error, as the test fixture expects it
TimeoutMessage == "request or operation took longer than the configured timeout time"

\* message of isahc's connection failure
ConnectMessage == "failed to connect to the server"

\* the prefix execute_command writes first
CreatingPrefix == "Creating application... "

\* Option<T>
None == [some |-> FALSE]
Some(v) == [some |-> TRUE, v |-> v]

\* Result<T, CliError>
Ok(v) == [ok |-> TRUE, value |-> v]
Err(m) == [ok |-> FALSE, message |-> m]

\* JSON values and objects (an object is its set of members)
JNull == [t |-> "null"]
JStr(s) == [t |-> "string", s |-> s]
JObject(members) == [json |-> TRUE, members |-> members]
\* an empty or otherwise unparseable body
NotJson == [json |-> FALSE, members |-> {}]

(* --------------------------- input domains ----------------------------- *)

Names == {None, Some("x")}
StatusCodes == {200, 201, 204, 404, 500}
GitUrls == {"g1", "g2"}

FullBody(n, u, g) ==
    JObject({[k |-> "name", v |-> JStr(n)],
             [k |-> "url", v |-> JStr(u)],
             [k |-> "git_repo", v |-> JStr(g)]})

Bodies ==
    {FullBody("x", "u", g) : g \in GitUrls}
    \cup {NotJson,
          JObject({[k |-> "name", v |-> JStr("x")], [k |-> "url", v |-> JStr("u")]}),
          JObject({[k |-> "name", v |-> JNull],
                   [k |-> "url", v |-> JStr("u")],
                   [k |-> "git_repo", v |-> JStr("g1")]})}

\* what the network and the server do with one request
Servers ==
    {[refused |-> TRUE, status |-> 0, body |-> NotJson, delay |-> 0]}
    \cup [refused : {FALSE}, status : StatusCodes, body : Bodies, delay : 0..MaxDelay]

\* a remote of the repository's configuration
Remote(n, u) == [name |-> n, url |-> u]

RemoteSets ==
    {c \cup o : c \in {{}, {Remote("capsule", "g1")}, {Remote("capsule", "old")}},
                o \in {{}, {Remote("origin", "o")}}}

\* the directory: no .git entry ("none"), a .git entry holding a repository
\* ("valid"), or a .git entry that is not a repository ("corrupt")
Directories ==
    {[git |-> "none", remotes |-> {}], [git |-> "corrupt", remotes |-> {}]}
    \cup [git : {"valid"}, remotes : RemoteSets]

VARIABLES
    pc,               \* position of the thread of control
    runs,             \* invocations started so far
    timeout,          \* HttpCapsuleApi.timeout, seconds
    arg_name,         \* Commands::Create { name }
    server,           \* the environment's answer to this run's request, None after
    gitState,         \* the .git entry of the application directory
    remotes,          \* the remotes of the repository's configuration
    request,          \* body of the request sent, None before
    response,         \* the response received: [status, body], None before
    api_result,       \* Result of api.create_application, None before
    create_response,  \* handle's create_response, None before
    remote_names,     \* handle's local remotes (the names listed), {} before
    result,           \* Result handle returned, None before
    out,              \* chunks written to the writer, in order
    calls,            \* history: operations performed in this invocation
    pre               \* history: the directory when the invocation started

vars == <<pc, runs, timeout, arg_name, server, gitState, remotes, request,
          response, api_result, create_response, remote_names, result, out,
          calls, pre>>

\* an entry of the history: the operation and the message of its failure
Call(op, err) == [op |-> op, err |-> err]
NoError == "-"

(* ------------------------- pure functions ------------------------------ *)

Digit(d) ==
    CASE d = 0 -> "0" [] d = 1 -> "1" [] d = 2 -> "2" [] d = 3 -> "3"
      [] d = 4 -> "4" [] d = 5 -> "5" [] d = 6 -> "6" [] d = 7 -> "7"
      [] d = 8 -> "8" [] d = 9 -> "9"

\* Display of a u16, as format!("{}") prints it
RECURSIVE U16ToString(_)
U16ToString(n) ==
    IF n < 10 THEN Digit(n) ELSE U16ToString(n \div 10) \o Digit(n % 10)

\* format!("The server response status {}.", status_code)
StatusMessage(status_code) ==
    "The server response status " \o U16ToString(status_code) \o "."

\* variant: any 2xx status taken for success
IsSuccess(status) == status \in 200..299

\* response.status() != StatusCode::CREATED, negated
IsCreated(status) == status = CREATED

\* serde_json::to_vec(&CreateApplicationRequest { name })
CreateApplicationRequest(name) ==
    JObject({[k |-> "name", v |-> IF name.some THEN JStr(name.v) ELSE JNull]})

\* the members of a JSON object under one key
Members(body, key) == {m \in body.members : m.k = key}

\* a required String field of a JSON object: Ok(the string) or Err
StringField(body, key) ==
    IF Members(body, key) = {} THEN Err("missing field " \o key)
    ELSE LET m == CHOOSE x \in Members(body, key) : TRUE
         IN  IF m.v.t = "string" THEN Ok(m.v.s)
             ELSE Err("invalid type: null, expected a string")

\* response.json::<ApplicationCreateResponse>()
Json(body) ==
    IF ~body.json THEN Err("EOF while parsing a value at line 1 column 0")
    ELSE LET n == StringField(body, "name")
             u == StringField(body, "url")
             g == StringField(body, "git_repo")
         IN  IF ~n.ok THEN n
             ELSE IF ~u.ok THEN u
             ELSE IF ~g.ok THEN g
             ELSE Ok([name |-> n.value, url |-> u.value, git_repo |-> g.value])

\* variant: url and git_repo exchanged in the copy
ApplicationCreateResponseSwapped(api_response) ==
    [name |-> api_response.name,
     url |-> api_response.git_repo,
     git_repo |-> api_response.url]

\* ApplicationCreateResponse { name: api_response.name, url: api_response.url,
\*                             git_repo: api_response.git_repo }
ApplicationCreateResponse(api_response) ==
    [name |-> api_response.name,
     url |-> api_response.url,
     git_repo |-> api_response.git_repo]

\* variant: the timeout is never applied
NeverTimedOut(delay, limit) == {FALSE}

\* .timeout(self.timeout): whether the request is cut off, given the delay
\* of the answer.  An answer arriving exactly at the limit races with it.
TimedOut(delay, limit) ==
    IF delay > limit THEN {TRUE}
    ELSE IF delay < limit THEN {FALSE}
    ELSE BOOLEAN

\* variant: every directory taken for a repository
is_any_directory(git) == TRUE

\* PathBuf::new().join(application_directory).join(".git").exists()
is_git_repository(git) == git # "none"

\* variant: the remote is added without looking for an existing one
capsule_remote_unchecked(names) == TRUE

\* remotes.iter().flatten().find(|it| *it == "capsule") ... is_none()
capsule_remote_is_none(names) == "capsule" \notin names

\* Result<T, git2::Error> in its failure case
GitErr(e) == [ok |-> FALSE, error |-> e]

\* git2 errors of the three repository operations
OpenNotFound == [code |-> "NotFound", message |-> "could not find repository"]
OpenDenied == [code |-> "Owner", message |-> "repository path is not owned by current user"]
ConfigError == [code |-> "Config", message |-> "failed to parse config file"]
LockedError == [code |-> "Locked", message |-> "failed to lock config file for writing"]
ExistsError == [code |-> "Exists", message |-> "remote capsule already exists"]

\* variant: the git2 error's message is dropped
FromGit2ErrorGeneric(e) == Err("git error")

\* impl From<git2::Error> for CliError: CliError { message: e.to_string() }
FromGit2Error(e) == Err(e.message)

\* Repository::open(&application_directory): the outcomes the file system
\* allows.  Only a repository opens, and the file system may still refuse.
RepositoryOpen(git) ==
    IF git = "valid" THEN {Ok("repo"), GitErr(OpenDenied)}
    ELSE {GitErr(OpenNotFound)}

\* repo.remotes(): the names of the configured remotes, or a failure
RepoRemotes(rs) == {Ok({r.name : r \in rs}), GitErr(ConfigError)}

\* repo.remote(name, url): the configuration with the remote added; a name
\* already taken is refused, and the write may fail
RepoRemote(rs, name, url) ==
    IF \E r \in rs : r.name = name THEN {GitErr(ExistsError)}
    ELSE {Ok(rs \cup {Remote(name, url)}), GitErr(LockedError)}

(* ------------------------------ actions -------------------------------- *)

Init ==
    /\ pc = "start"
    /\ runs = 1
    /\ timeout \in {TestTimeoutSecs, MainTimeoutSecs}
    /\ arg_name \in Names
    /\ server \in Servers
    /\ \E d \in Directories :
          /\ gitState = d.git
          /\ remotes = d.remotes
          /\ pre = d
    /\ request = None
    /\ response = None
    /\ api_result = None
    /\ create_response = None
    /\ remote_names = {}
    /\ result = None
    /\ out = <<>>
    /\ calls = <<>>

\* main.rs:44  write!(writer, "Creating application... ")
WritePrefix ==
    /\ pc = "start"
    /\ out' = Append(out, CreatingPrefix)
    /\ pc' = "create_application"
    /\ UNCHANGED <<runs, timeout, arg_name, server, gitState, remotes, request,
                   response, api_result, create_response, remote_names, result,
                   calls, pre>>

\* http.rs:57-61  build the request and send it, bounded by the timeout
Send ==
    /\ pc = "create_application"
    /\ request' = Some(CreateApplicationRequest(arg_name))
    /\ IF server.refused
       THEN /\ api_result' = Some(Err(ConnectMessage))
            /\ calls' = Append(calls, Call("create_application", ConnectMessage))
            /\ pc' = "try"
            /\ UNCHANGED response
       ELSE \E cut \in TimedOut(server.delay, timeout) :
               IF cut
               THEN /\ api_result' = Some(Err(TimeoutMessage))
                    /\ calls' = Append(calls, Call("create_application", TimeoutMessage))
                    /\ pc' = "try"
                    /\ UNCHANGED response
               ELSE /\ response' = Some([status |-> server.status, body |-> server.body])
                    /\ calls' = Append(calls, Call("create_application", NoError))
                    /\ pc' = "status"
                    /\ UNCHANGED api_result
    /\ UNCHANGED <<runs, timeout, arg_name, server, gitState, remotes,
                   create_response, remote_names, result, out, pre>>

\* http.rs:63-66  any status but 201 is an error naming the code
CheckStatus ==
    /\ pc = "status"
    /\ IF IsCreated(response.v.status)
       THEN /\ pc' = "json"
            /\ UNCHANGED api_result
       ELSE /\ api_result' = Some(Err(StatusMessage(response.v.status)))
            /\ pc' = "try"
    /\ UNCHANGED <<runs, timeout, arg_name, server, gitState, remotes, request,
                   response, create_response, remote_names, result, out, calls, pre>>

\* http.rs:68-70  decode the body and copy its three fields
DecodeJson ==
    /\ pc = "json"
    /\ LET api_response == Json(response.v.body)
       IN  /\ api_result' = Some(IF api_response.ok
                                 THEN Ok(ApplicationCreateResponse(api_response.value))
                                 ELSE api_response)
           /\ calls' = Append(calls, Call("json", IF api_response.ok THEN NoError
                                                  ELSE api_response.message))
    /\ pc' = "try"
    /\ UNCHANGED <<runs, timeout, arg_name, server, gitState, remotes, request,
                   response, create_response, remote_names, result, out, pre>>

\* variant: a failed creation is tried once more
HandleTryRetry ==
    /\ pc = "try"
    /\ IF api_result.v.ok
       THEN /\ create_response' = Some(api_result.v.value)
            /\ pc' = "is_git_repository"
            /\ UNCHANGED <<result, api_result, response>>
       ELSE IF Len(calls) < 2
       THEN /\ pc' = "create_application"
            /\ api_result' = None
            /\ response' = None
            /\ UNCHANGED <<result, create_response>>
       ELSE /\ result' = Some(Err(api_result.v.message))
            /\ pc' = "print"
            /\ UNCHANGED <<create_response, api_result, response>>
    /\ UNCHANGED <<runs, timeout, arg_name, server, gitState, remotes, request,
                   remote_names, out, calls, pre>>

\* cmd_create_application.rs:29  the ? after api.create_application
HandleTry ==
    /\ pc = "try"
    /\ IF api_result.v.ok
       THEN /\ create_response' = Some(api_result.v.value)
            /\ pc' = "is_git_repository"
            /\ UNCHANGED result
       ELSE /\ result' = Some(Err(api_result.v.message))
            /\ pc' = "print"
            /\ UNCHANGED create_response
    /\ UNCHANGED <<runs, timeout, arg_name, server, gitState, remotes, request,
                   response, api_result, remote_names, out, calls, pre>>

\* cmd_create_application.rs:31  if is_git_repository(&application_directory)
IsGitRepository ==
    /\ pc = "is_git_repository"
    /\ calls' = Append(calls, Call("is_git_repository", NoError))
    /\ pc' = IF is_git_repository(gitState) THEN "open" ELSE "ok"
    /\ UNCHANGED <<runs, timeout, arg_name, server, gitState, remotes, request,
                   response, api_result, create_response, remote_names, result,
                   out, pre>>

\* cmd_create_application.rs:32  let repo = Repository::open(..)?
OpenRepository ==
    /\ pc = "open"
    /\ \E r \in RepositoryOpen(gitState) :
          IF r.ok
          THEN /\ calls' = Append(calls, Call("open", NoError))
               /\ pc' = "remotes"
               /\ UNCHANGED result
          ELSE /\ calls' = Append(calls, Call("open", r.error.message))
               /\ result' = Some(FromGit2Error(r.error))
               /\ pc' = "print"
    /\ UNCHANGED <<runs, timeout, arg_name, server, gitState, remotes, request,
                   response, api_result, create_response, remote_names, out, pre>>

\* variant: a failure to list the remotes is ignored
ListRemotesBestEffort ==
    /\ pc = "remotes"
    /\ \E r \in RepoRemotes(remotes) :
          IF r.ok
          THEN /\ calls' = Append(calls, Call("remotes", NoError))
               /\ remote_names' = r.value
               /\ pc' = IF capsule_remote_is_none(r.value) THEN "remote" ELSE "ok"
          ELSE /\ calls' = Append(calls, Call("remotes", r.error.message))
               /\ pc' = "ok"
               /\ UNCHANGED remote_names
    /\ UNCHANGED <<runs, timeout, arg_name, server, gitState, remotes, request,
                   response, api_result, create_response, result, out, pre>>

\* cmd_create_application.rs:34-37  list the remotes, look for "capsule"
ListRemotes ==
    /\ pc = "remotes"
    /\ \E r \in RepoRemotes(remotes) :
          IF r.ok
          THEN /\ calls' = Append(calls, Call("remotes", NoError))
               /\ remote_names' = r.value
               /\ pc' = IF capsule_remote_is_none(r.value) THEN "remote" ELSE "ok"
               /\ UNCHANGED result
          ELSE /\ calls' = Append(calls, Call("remotes", r.error.message))
               /\ result' = Some(FromGit2Error(r.error))
               /\ pc' = "print"
               /\ UNCHANGED remote_names
    /\ UNCHANGED <<runs, timeout, arg_name, server, gitState, remotes, request,
                   response, api_result, create_response, out, pre>>

\* variant: the remote points at the application's url
AddRemoteUrl ==
    /\ pc = "remote"
    /\ \E r \in RepoRemote(remotes, "capsule", create_response.v.url) :
          IF r.ok
          THEN /\ calls' = Append(calls, Call("remote", NoError))
               /\ remotes' = r.value
               /\ pc' = "ok"
               /\ UNCHANGED result
          ELSE /\ calls' = Append(calls, Call("remote", r.error.message))
               /\ result' = Some(FromGit2Error(r.error))
               /\ pc' = "print"
               /\ UNCHANGED remotes
    /\ UNCHANGED <<runs, timeout, arg_name, server, gitState, request, response,
                   api_result, create_response, remote_names, out, pre>>

\* cmd_create_application.rs:38  repo.remote("capsule", &create_response.git_repo)?
AddRemote ==
    /\ pc = "remote"
    /\ \E r \in RepoRemote(remotes, "capsule", create_response.v.git_repo) :
          IF r.ok
          THEN /\ calls' = Append(calls, Call("remote", NoError))
               /\ remotes' = r.value
               /\ pc' = "ok"
               /\ UNCHANGED result
          ELSE /\ calls' = Append(calls, Call("remote", r.error.message))
               /\ result' = Some(FromGit2Error(r.error))
               /\ pc' = "print"
               /\ UNCHANGED remotes
    /\ UNCHANGED <<runs, timeout, arg_name, server, gitState, request, response,
                   api_result, create_response, remote_names, out, pre>>

\* cmd_create_application.rs:42  Ok(create_response)
HandleOk ==
    /\ pc = "ok"
    /\ result' = Some(Ok(create_response.v))
    /\ pc' = "print"
    /\ UNCHANGED <<runs, timeout, arg_name, server, gitState, remotes, request,
                   response, api_result, create_response, remote_names, out,
                   calls, pre>>

\* variant: write! where writeln! was meant
LineNoNewline(text) == text

\* writeln!(writer, ...): the text and a newline
Line(text) == text \o "\n"

\* main.rs:48  Err(CliError { message }) => writeln!(writer, "{}", message)
PrintErr ==
    /\ pc = "print"
    /\ ~result.v.ok
    /\ out' = Append(out, Line(result.v.message))
    /\ pc' = "done"
    /\ UNCHANGED <<runs, timeout, arg_name, server, gitState, remotes, request,
                   response, api_result, create_response, remote_names, result,
                   calls, pre>>

\* main.rs:50  writeln!(writer, "done, {}", response.name)
PrintDone ==
    /\ pc = "print"
    /\ result.v.ok
    /\ out' = Append(out, Line("done, " \o result.v.value.name))
    /\ pc' = "print_url"
    /\ UNCHANGED <<runs, timeout, arg_name, server, gitState, remotes, request,
                   response, api_result, create_response, remote_names, result,
                   calls, pre>>

\* main.rs:51  writeln!(writer, "url: {}", response.url)
PrintUrl ==
    /\ pc = "print_url"
    /\ out' = Append(out, Line("url: " \o result.v.value.url))
    /\ pc' = "print_git"
    /\ UNCHANGED <<runs, timeout, arg_name, server, gitState, remotes, request,
                   response, api_result, create_response, remote_names, result,
                   calls, pre>>

\* main.rs:52  writeln!(writer, "git: {}", response.git_repo)
PrintGit ==
    /\ pc = "print_git"
    /\ out' = Append(out, Line("git: " \o result.v.value.git_repo))
    /\ pc' = "done"
    /\ UNCHANGED <<runs, timeout, arg_name, server, gitState, remotes, request,
                   response, api_result, create_response, remote_names, result,
                   calls, pre>>

\* main.rs:68  execute_command has returned and the process ends: what it
\* held in memory is gone, the directory stays as it is
Exit ==
    /\ pc = "done"
    /\ pc' = "exited"
    /\ arg_name' = None
    /\ server' = None
    /\ pre' = [git |-> gitState, remotes |-> remotes]
    /\ request' = None
    /\ response' = None
    /\ api_result' = None
    /\ create_response' = None
    /\ remote_names' = {}
    /\ result' = None
    /\ out' = <<>>
    /\ calls' = <<>>
    /\ UNCHANGED <<runs, timeout, gitState, remotes>>

\* main.rs:59-67  the command is run again in the same directory: a new
\* process, a new request, the repository as the last run left it
NextInvocation ==
    /\ pc = "exited"
    /\ runs < MaxRuns
    /\ runs' = runs + 1
    /\ pc' = "start"
    /\ arg_name' \in Names
    /\ server' \in Servers
    /\ UNCHANGED <<timeout, gitState, remotes, pre, request, response,
                   api_result, create_response, remote_names, result, out, calls>>

Next ==
    \/ WritePrefix
    \/ Send
    \/ CheckStatus
    \/ DecodeJson
    \/ HandleTry
    \/ IsGitRepository
    \/ OpenRepository
    \/ ListRemotes
    \/ AddRemote
    \/ HandleOk
    \/ PrintErr
    \/ PrintDone
    \/ PrintUrl
    \/ PrintGit
    \/ Exit
    \/ NextInvocation

Spec == Init /\ [][Next]_vars

\* the steps of one run of the command; running it again is the user's choice
Step ==
    \/ WritePrefix
    \/ Send
    \/ CheckStatus
    \/ DecodeJson
    \/ HandleTry
    \/ IsGitRepository
    \/ OpenRepository
    \/ ListRemotes
    \/ AddRemote
    \/ HandleOk
    \/ PrintErr
    \/ PrintDone
    \/ PrintUrl
    \/ PrintGit
    \/ Exit

\* the program is straight-line blocking code: a step that can be taken is taken
FairSpec == Init /\ [][Next]_vars /\ WF_vars(Step)

(* ------------------------- vocabulary of the claims -------------------- *)

\* handle has returned
Returned == result.some

LocalOps == {"open", "remotes", "remote"}

CreateCalls == {i \in DOMAIN calls : calls[i].op = "create_application"}
LocalCalls == {i \in DOMAIN calls : calls[i].op \in LocalOps}
FailedLocalCalls == {i \in LocalCalls : calls[i].err # NoError}

CapsuleRemotes(rs) == {r \in rs : r.name = "capsule"}
OtherRemotes(rs) == {r \in rs : r.name # "capsule"}

ApiOk == api_result.some /\ api_result.v.ok
ApiErr == api_result.some /\ ~api_result.v.ok
(* ------------------------------- claims -------------------------------- *)

\* C1: fail-fast on the network step.  Every invocation of handle calls
\* create_application exactly once (never a second time), and when that call
\* returns an error handle returns the same error at once: no local operation
\* is performed and the directory and its remotes are as they were before the
\* invocation, for repositories and other directories alike.
C1_FailFast ==
    /\ Cardinality(CreateCalls) <= 1
    /\ (Returned => Cardinality(CreateCalls) = 1)
    /\ (ApiErr =>
          /\ remotes = pre.remotes
          /\ gitState = pre.git
          /\ \A i \in DOMAIN calls : calls[i].op \in {"create_application", "json"}
          /\ (pc # "try" => result = api_result))

C1_Witness ==
    /\ pc = "done"
    /\ ApiErr
    /\ pre.git = "valid"
    /\ result = Some(Err(StatusMessage(500)))

\* C2 as stated: for a directory with a .git entry whose repository has no
\* "capsule" remote, once create_application succeeded with response r and
\* handle has returned, the repository has exactly one "capsule" remote and
\* its URL is r.git_repo.
C2_Original ==
    (Returned /\ ApiOk /\ pre.git = "valid" /\ CapsuleRemotes(pre.remotes) = {})
        => CapsuleRemotes(remotes) = {Remote("capsule", api_result.v.value.git_repo)}

\* C2 amended: for a directory with a .git entry whose repository has no
\* "capsule" remote, once handle has returned Ok(r) the repository has
\* exactly one "capsule" remote and its URL is r.git_repo.
C2_RemoteAdded ==
    (Returned /\ result.v.ok /\ pre.git # "none" /\ CapsuleRemotes(pre.remotes) = {})
        => CapsuleRemotes(remotes) = {Remote("capsule", result.v.value.git_repo)}

C2_Witness ==
    /\ pc = "done"
    /\ result.v.ok
    /\ pre = [git |-> "valid", remotes |-> {Remote("origin", "o")}]
    /\ remotes = {Remote("origin", "o"), Remote("capsule", "g2")}

\* C3 as stated: at most one "capsule" remote exists in every reachable
\* state; a "capsule" remote present before an invocation keeps its URL; and
\* with such a remote present handle returns Ok whenever the creation call
\* succeeded.
C3_Original ==
    /\ Cardinality(CapsuleRemotes(remotes)) <= 1
    /\ (CapsuleRemotes(pre.remotes) # {} =>
          /\ CapsuleRemotes(remotes) = CapsuleRemotes(pre.remotes)
          /\ (Returned /\ ApiOk => result.v.ok))

\* C3 amended: at most one "capsule" remote exists in every reachable state;
\* a "capsule" remote present before an invocation keeps its URL, whatever
\* the response; and with such a remote present handle returns Ok whenever
\* the creation call succeeded and neither opening the repository nor
\* listing its remotes failed.
C3_Idempotent ==
    /\ Cardinality(CapsuleRemotes(remotes)) <= 1
    /\ (CapsuleRemotes(pre.remotes) # {} =>
          /\ CapsuleRemotes(remotes) = CapsuleRemotes(pre.remotes)
          /\ (Returned /\ ApiOk
                /\ (\A i \in DOMAIN calls :
                       calls[i].op \in {"open", "remotes"} => calls[i].err = NoError)
                => result.v.ok))

C3_Witness ==
    /\ pc = "done"
    /\ runs = 2
    /\ result.v.ok
    /\ result.v.value.git_repo = "g2"
    /\ pre.remotes = {Remote("capsule", "g1")}
    /\ remotes = {Remote("capsule", "g1")}

\* C4: for a directory with no .git entry, a successful create_application
\* makes handle return Ok, and the local step does nothing: the repository is
\* never opened, listed or changed, and the directory still has no .git
\* entry.
C4_NotARepository ==
    pre.git = "none" =>
        /\ LocalCalls = {}
        /\ remotes = pre.remotes
        /\ gitState = "none"
        /\ (Returned /\ ApiOk => result.v.ok)

C4_Witness ==
    /\ pc = "done"
    /\ pre.git = "none"
    /\ result.v.ok
    /\ calls[Len(calls)].op = "is_git_repository"

\* the text the status failure must carry, code by code
ExpectedStatusMessage(c) ==
    CASE c = 200 -> "The server response status 200."
      [] c = 204 -> "The server response status 204."
      [] c = 404 -> "The server response status 404."
      [] c = 500 -> "The server response status 500."
      [] OTHER -> "?"

\* C5: success is exactly status 201.  A received status c other than 201,
\* other 2xx codes included, gives Err("The server response status c.") and
\* the body is not decoded; create_application is Ok only after status 201.
C5_OnlyCreated ==
    /\ (response.some /\ response.v.status # 201 =>
          /\ \A i \in DOMAIN calls : calls[i].op # "json"
          /\ (pc # "status" =>
                api_result = Some(Err(ExpectedStatusMessage(response.v.status)))))
    /\ (ApiOk => response.some /\ response.v.status = 201)

C5_Witness ==
    /\ pc = "done"
    /\ response.some
    /\ response.v.status = 200
    /\ response.v.body = FullBody("x", "u", "g1")
    /\ api_result = Some(Err("The server response status 200."))

\* C6: the creation response passes through unchanged.  Whatever the name
\* argument, a 201 response whose body holds name, url and git_repo makes
\* create_application return Ok with exactly these three values, and an Ok
\* from handle carries exactly the response create_application produced, in
\* a repository and elsewhere.
C6_PassThrough ==
    /\ \A n \in {"x"}, u \in {"u"}, g \in GitUrls :
          (/\ response.some
           /\ response.v.status = 201
           /\ response.v.body = FullBody(n, u, g)
           /\ api_result.some)
          => api_result.v = Ok([name |-> n, url |-> u, git_repo |-> g])
    /\ (Returned /\ result.v.ok => result = api_result)

C6_Witness ==
    /\ pc = "done"
    /\ arg_name = None
    /\ pre.git = "valid"
    /\ response.some
    /\ response.v.body = FullBody("x", "u", "g2")
    /\ result = Some(Ok([name |-> "x", url |-> "u", git_repo |-> "g2"]))

\* the status codes of HTTP
AllStatusCodes == 100..999

\* C7: a request whose answer takes longer than the configured timeout makes
\* create_application return Err, also when the answer would have been 201,
\* and the message is the timeout message, which no status failure
\* "The server response status {code}." equals.
C7_Timeout ==
    (/\ request.some
     /\ ~server.refused
     /\ server.delay > timeout)
    => /\ response = None
       /\ api_result = Some(Err(TimeoutMessage))
       /\ (pc = "try" =>
             \A c \in AllStatusCodes : api_result.v.message # StatusMessage(c))

C7_Witness ==
    /\ pc = "done"
    /\ timeout = MainTimeoutSecs
    /\ server.delay = MainTimeoutSecs + 1
    /\ server.status = 201
    /\ server.body = FullBody("x", "u", "g1")
    /\ result = Some(Err(TimeoutMessage))

\* what the writer holds when the command has ended
FinalOutput(r) ==
    IF r.ok
    THEN <<CreatingPrefix,
           "done, " \o r.value.name \o "\n",
           "url: " \o r.value.url \o "\n",
           "git: " \o r.value.git_repo \o "\n">>
    ELSE <<CreatingPrefix, r.message \o "\n">>

C8_Output ==
    /\ (pc \notin {"start", "exited"} => Len(out) >= 1 /\ out[1] = CreatingPrefix)
    /\ (pc \in {"start", "exited"} => out = <<>> /\ calls = <<>> /\ ~Returned)
    /\ (~Returned => Len(out) <= 1)
    /\ (Returned =>
          /\ Len(out) <= Len(FinalOutput(result.v))
          /\ out = SubSeq(FinalOutput(result.v), 1, Len(out)))
    /\ (pc = "done" => Returned /\ out = FinalOutput(result.v))

C9_LocalFailures ==
    /\ \A i \in FailedLocalCalls :
          /\ pre.git # "none"
          /\ ApiOk
          /\ result = Some(Err(calls[i].err))
    /\ (Returned /\ ApiOk /\ pre.git = "none" => result.v.ok)
    /\ (Returned /\ ApiOk /\ ~result.v.ok => FailedLocalCalls # {})

C9_Witness ==
    /\ pc = "done"
    /\ ApiOk
    /\ calls[Len(calls)] = Call("remote", LockedError.message)
    /\ result = Some(Err("failed to lock config file for writing"))

\* C10: no partial local state.  When handle returns Err the remotes are
\* those of before the invocation; when it returns Ok in a directory with a
\* .git entry a "capsule" remote exists; and remotes of other names are never
\* added, changed or removed.
C10_NoPartialState ==
    /\ (Returned /\ ~result.v.ok => remotes = pre.remotes)
    /\ (Returned /\ result.v.ok /\ pre.git # "none" => CapsuleRemotes(remotes) # {})
    /\ OtherRemotes(remotes) = OtherRemotes(pre.remotes)

C10_Witness ==
    /\ pc = "done"
    /\ ApiOk
    /\ ~result.v.ok
    /\ pre.remotes = {Remote("origin", "o")}
    /\ remotes = {Remote("origin", "o")}
====
